---- MODULE Spec2Model ----
(***************************************************************************)
(* Model of sph_solver (src/main.rs): the two smoothing kernels, the       *)
(* Simulation arrays, the simulation thread's loop and the channel that    *)
(* carries the per-tick vertex vectors to render::open_window.             *)
(*                                                                         *)
(* Scalars (f32 in the source) are exact rationals <<num, den>> in lowest  *)
(* terms with den > 0; rounding of f32 is outside the model.  Kernel       *)
(* values, densities and colours are carried as the rational coefficient   *)
(* of 1/PI (every kernel constant has the form q / PI).                    *)
(***************************************************************************)
EXTENDS Integers, Sequences, FiniteSets, TLC

VARIABLES num_particles, s, s0, i, tick, verts, density, simpc,
          chan, rx, received, sent, kr, kh, kout

simvars == <<num_particles, s, s0, i, tick, verts, density, simpc,
             chan, rx, received, sent>>
kvars == <<kr, kh, kout>>
vars == <<num_particles, s, s0, i, tick, verts, density, simpc,
          chan, rx, received, sent, kr, kh, kout>>

\* ---------------------------------------------------------------- bounds
MaxN == 2          \* particle counts 0..MaxN (the program uses 1000)
MaxTicks == 2      \* ticks the simulation thread may run
MaxHalf == 4       \* kernel probes: coordinates k/2, k in -MaxHalf..MaxHalf

\* ------------------------------------------------------- Scalar = f32
\* The arithmetic operators bind their operands to values before they compute
\* (CHOOSE over a one-element set), as Rust evaluates operands before the
\* operation.
Abs(x) == IF x < 0 THEN -x ELSE x

RECURSIVE GCD(_, _)
GCD(a, b) == IF b = 0 THEN a ELSE GCD(b, a % b)

Rat(n, d) ==
    LET g == GCD(Abs(n), Abs(d))
        sg == IF d < 0 THEN -1 ELSE 1
    IN <<(sg * n) \div g, (sg * d) \div g>>

Zero == <<0, 1>>
One == <<1, 1>>

AddV(a, b) ==
    LET g == GCD(a[2], b[2])
    IN Rat(a[1] * (b[2] \div g) + b[1] * (a[2] \div g), a[2] * (b[2] \div g))

MulV(a, b) ==
    LET g1 == GCD(Abs(a[1]), b[2])
        g2 == GCD(Abs(b[1]), a[2])
    IN Rat((a[1] \div g1) * (b[1] \div g2), (a[2] \div g2) * (b[2] \div g1))

RAdd(a, b) == CHOOSE z \in {AddV(x, y) : x \in {a}, y \in {b}} : TRUE

RNeg(a) == <<-a[1], a[2]>>

RSub(a, b) == CHOOSE z \in {AddV(x, RNeg(y)) : x \in {a}, y \in {b}} : TRUE

RMul(a, b) == CHOOSE z \in {MulV(x, y) : x \in {a}, y \in {b}} : TRUE

RDiv(a, b) == CHOOSE z \in {MulV(x, Rat(y[2], y[1])) : x \in {a}, y \in {b}} : TRUE

RLe(a, b) == a[1] * b[2] <= b[1] * a[2]

RLt(a, b) == a[1] * b[2] < b[1] * a[2]

\* powi by repeated squaring
RECURSIVE Powi(_, _)
Powi(a, n) ==
    IF n = 0 THEN One
    ELSE IF n % 2 = 0 THEN CHOOSE z \in {MulV(x, x) : x \in {Powi(a, n \div 2)}} : TRUE
    ELSE RMul(a, Powi(a, n - 1))

\* sqrt on the scalars whose root is rational (the only ones it is applied to)
ISqrt(n) == CHOOSE k \in 0..n : k * k = n
IsSquare(a) == /\ \E k \in 0..a[1] : k * k = a[1]
               /\ \E k \in 1..a[2] : k * k = a[2]
RSqrt(a) == <<ISqrt(a[1]), ISqrt(a[2])>>

\* ------------------------------------------------ Vec3 = Vector3<Scalar>
vec3(x, y, z) == <<x, y, z>>
ZeroVec == vec3(Zero, Zero, Zero)
VAdd(u, v) == <<RAdd(u[1], v[1]), RAdd(u[2], v[2]), RAdd(u[3], v[3])>>
VSub(u, v) == <<RSub(u[1], v[1]), RSub(u[2], v[2]), RSub(u[3], v[3])>>
VScale(c, v) == <<RMul(c, v[1]), RMul(c, v[2]), RMul(c, v[3])>>
magnitude2(r) == RAdd(RAdd(RMul(r[1], r[1]), RMul(r[2], r[2])), RMul(r[3], r[3]))
magnitude(r) == RSqrt(magnitude2(r))

\* ------------------------------------------------------- SpikyKernel
SpikyValueOpenAtZero(r, hk) ==
    LET r_mag == magnitude(r) IN
    IF RLt(Zero, r_mag) /\ RLe(r_mag, hk)
    THEN LET c == RDiv(<<15, 1>>, Powi(hk, 6))
             h_sub_r == RSub(hk, r_mag)
         IN RMul(RMul(RMul(c, h_sub_r), h_sub_r), h_sub_r)
    ELSE Zero

SpikyValue(r, hk) ==
    LET r_mag == magnitude(r) IN
    IF RLe(Zero, r_mag) /\ RLe(r_mag, hk)
    THEN LET c == RDiv(<<15, 1>>, Powi(hk, 6))
             h_sub_r == RSub(hk, r_mag)
         IN RMul(RMul(RMul(c, h_sub_r), h_sub_r), h_sub_r)
    ELSE Zero

SpikyGradientMag(r, hk) ==
    LET r_mag == magnitude(r) IN
    IF RLe(Zero, r_mag) /\ RLe(r_mag, hk)
    THEN LET c == RDiv(RMul(<<15, 1>>, <<-3, 1>>), Powi(hk, 6))
             h_sub_r == RSub(hk, r_mag)
         IN RMul(RMul(c, h_sub_r), h_sub_r)
    ELSE Zero

\* ------------------------------------------------------- Poly6Kernel
Poly6ValueClosedAtZero(r, hk) ==
    LET c == RDiv(<<315, 1>>, RMul(<<64, 1>>, Powi(hk, 9)))
        mag2 == magnitude2(r)
    IN IF RLe(mag2, RMul(hk, hk)) /\ RLe(Zero, mag2)
       THEN RMul(c, Powi(RSub(RMul(hk, hk), mag2), 3))
       ELSE Zero

Poly6Value(r, hk) ==
    LET c == RDiv(<<315, 1>>, RMul(<<64, 1>>, Powi(hk, 9)))
        mag2 == magnitude2(r)
    IN IF RLe(mag2, RMul(hk, hk)) /\ RLt(Zero, mag2)
       THEN RMul(c, Powi(RSub(RMul(hk, hk), mag2), 3))
       ELSE Zero

Poly6GradientMagUnbounded(r, hk) ==
    LET c == RDiv(<<315, 1>>, RMul(<<64, 1>>, Powi(hk, 9)))
        mag2 == magnitude2(r)
        d == RSub(RMul(hk, hk), mag2)
    IN IF RLt(Zero, mag2)
       THEN RMul(RMul(RMul(RMul(RMul(c, <<3, 1>>), <<-2, 1>>), RSqrt(mag2)), d), d)
       ELSE Zero

Poly6GradientMag(r, hk) ==
    LET c == RDiv(<<315, 1>>, RMul(<<64, 1>>, Powi(hk, 9)))
        mag2 == magnitude2(r)
        d == RSub(RMul(hk, hk), mag2)
    IN IF RLe(mag2, RMul(hk, hk)) /\ RLt(Zero, mag2)
       THEN RMul(RMul(RMul(RMul(RMul(c, <<3, 1>>), <<-2, 1>>), RSqrt(mag2)), d), d)
       ELSE Zero

\* ------------------------------------------------------------- main
h == One
delta_time == <<1, 100>>
ColorNorm == <<150, 1>>

\* Initial data of one particle.  main pushes mass 1.0, a random position in
\* [-1, 1)^3, zero velocity and the force -0.1 * position; the model draws
\* mass, position and force independently from small sets.  The non-zero
\* force is large enough that one tick moves a particle by a multiple of 1/4,
\* so a particle crosses the support radius of another within a few ticks.
Masses == {One, <<2, 1>>}
Half == <<1, 2>>
PosSet == {ZeroVec, vec3(Half, Zero, Zero), vec3(Zero, Rat(-1, 2), Half),
           vec3(Rat(-1, 1), Zero, Zero)}
ForceSet == {ZeroVec, vec3(<<5000, 1>>, Zero, Zero)}
ParticleInits == [mass : Masses, position : PosSet, force : ForceSet]

\* one particle at (1,0,0) pulled towards the origin by -0.1 * position
SingleParticleScenario ==
    <<[mass |-> One, position |-> vec3(One, Zero, Zero),
       force |-> vec3(Rat(-1, 10), Zero, Zero)]>>

Configs == (UNION {[1..n -> ParticleInits] : n \in 0..MaxN})
               \cup {SingleParticleScenario}

Simulation(cfg) ==
    [masses |-> [k \in 1..Len(cfg) |-> cfg[k].mass],
     positions |-> [k \in 1..Len(cfg) |-> cfg[k].position],
     velocities |-> [k \in 1..Len(cfg) |-> ZeroVec],
     force |-> [k \in 1..Len(cfg) |-> cfg[k].force]]

RECURSIVE SumTo(_, _)
SumTo(f, n) == IF n = 0 THEN Zero ELSE RAdd(SumTo(f, n - 1), f[n])

\* (0..num_particles).map(|j| masses[j] * Poly6Kernel::value(p[i] - p[j], h)).sum()
DensitySum(sim, p, n) ==
    SumTo([j \in 1..n |->
              RMul(sim.masses[j],
                   Poly6Value(VSub(sim.positions[p], sim.positions[j]), h))], n)

IntegrateExplicit(sim, p) ==
    LET v == VAdd(sim.velocities[p],
                  VScale(RDiv(delta_time, sim.masses[p]), sim.force[p]))
    IN [sim EXCEPT !.velocities[p] = v,
                   !.positions[p] = VAdd(sim.positions[p],
                                         VScale(delta_time, sim.velocities[p]))]

IntegrateRecomputingForce(sim, p) ==
    LET v == VAdd(sim.velocities[p],
                  VScale(RDiv(delta_time, sim.masses[p]), sim.force[p]))
        x == VAdd(sim.positions[p], VScale(delta_time, v))
    IN [sim EXCEPT !.velocities[p] = v, !.positions[p] = x,
                   !.force[p] = VScale(Rat(-1, 10), x)]

\* s.velocities[i] = ...; s.positions[i] = ...;
Integrate(sim, p) ==
    LET v == VAdd(sim.velocities[p],
                  VScale(RDiv(delta_time, sim.masses[p]), sim.force[p]))
    IN [sim EXCEPT !.velocities[p] = v,
                   !.positions[p] = VAdd(sim.positions[p], VScale(delta_time, v))]

Vertex(pos, d) ==
    [position |-> pos,
     color |-> <<RDiv(d, ColorNorm), One, RDiv(d, ColorNorm)>>]

LoopDoneEarly(k, n) == k >= n - 1

\* the inner `for i in 0..num_particles` is exhausted
LoopDone(k, n) == k >= n

EnqueueFront(q, m) == <<m>> \o q

\* Sender::send on a connected channel: the message joins the queue's tail
Enqueue(q, m) == Append(q, m)

UnwrapIgnored(ok) == "run"

\* .unwrap() on the result of send: Err panics the simulation thread
Unwrap(ok) == IF ok THEN "run" ELSE "panicked"

\* no kernel call has been made
NoCall == [kernel |-> "none", value |-> Zero, gradient_mag |-> Zero]

Init ==
    /\ \E cfg \in Configs :
          /\ num_particles = Len(cfg)
          /\ s = Simulation(cfg)
          /\ s0 = Simulation(cfg)
    /\ i = 0
    /\ tick = 1
    /\ verts = <<>>
    /\ density = <<>>
    /\ simpc = "run"
    /\ chan = <<>>
    /\ rx = "open"
    /\ received = <<>>
    /\ sent = <<>>
    /\ kr = ZeroVec
    /\ kh = One
    /\ kout = NoCall

\* one iteration of `for i in 0..num_particles` (particle i + 1 of the model)
ParticleStep ==
    /\ simpc = "run"
    /\ tick <= MaxTicks
    /\ ~LoopDone(i, num_particles)
    /\ \E advanced \in {Integrate(s, i + 1)} :
       \E rho \in {DensitySum(advanced, i + 1, num_particles)} :
          /\ s' = advanced
          /\ density' = Append(density, rho)
          /\ verts' = Append(verts, Vertex(advanced.positions[i + 1], rho))
    /\ i' = i + 1
    /\ UNCHANGED <<num_particles, s0, tick, simpc, chan, rx, received, sent>>
    /\ UNCHANGED kvars

\* tx.send(verts).unwrap(), then the next iteration of `loop`
Send ==
    /\ simpc = "run"
    /\ tick <= MaxTicks
    /\ LoopDone(i, num_particles)
    /\ LET msg == [tick |-> tick, verts |-> verts]
           connected == rx = "open"
       IN /\ sent' = Append(sent, msg)
          /\ chan' = IF connected THEN Enqueue(chan, msg) ELSE chan
          /\ simpc' = Unwrap(connected)
    /\ verts' = <<>>
    /\ density' = <<>>
    /\ i' = 0
    /\ tick' = tick + 1
    /\ UNCHANGED <<num_particles, s, s0, rx, received>>
    /\ UNCHANGED kvars

\* the consumer takes the oldest queued snapshot
Receive ==
    /\ rx = "open"
    /\ chan # <<>>
    /\ received' = Append(received, Head(chan))
    /\ chan' = Tail(chan)
    /\ UNCHANGED <<num_particles, s, s0, i, tick, verts, density, simpc, rx, sent>>
    /\ UNCHANGED kvars

\* the consumer drops the Receiver; queued snapshots are discarded
DropReceiver ==
    /\ rx = "open"
    /\ rx' = "dropped"
    /\ chan' = <<>>
    /\ UNCHANGED <<num_particles, s, s0, i, tick, verts, density, simpc,
                   received, sent>>
    /\ UNCHANGED kvars

Next == ParticleStep \/ Send \/ Receive \/ DropReceiver

Spec == Init /\ [][Next]_vars

\* --------------------------------------------- kernels as pure functions
\* Separation vectors with coordinates k/2 whose length is rational, and radii.
Halves == {Rat(k, 2) : k \in -MaxHalf..MaxHalf}
ProbeVectors == {r \in Halves \X Halves \X Halves : IsSquare(magnitude2(r))}
ProbeRadii == {Half, One, <<2, 1>>}

KInit ==
    /\ num_particles = 0
    /\ s = Simulation(<<>>)
    /\ s0 = Simulation(<<>>)
    /\ i = 0
    /\ tick = 1
    /\ verts = <<>>
    /\ density = <<>>
    /\ simpc = "idle"
    /\ chan = <<>>
    /\ rx = "open"
    /\ received = <<>>
    /\ sent = <<>>
    /\ kr \in ProbeVectors
    /\ kh \in ProbeRadii
    /\ kout = NoCall

CallSpiky ==
    /\ kout = NoCall
    /\ kout' = [kernel |-> "Spiky", value |-> SpikyValue(kr, kh),
                gradient_mag |-> SpikyGradientMag(kr, kh)]
    /\ UNCHANGED <<kr, kh>>
    /\ UNCHANGED simvars

CallPoly6 ==
    /\ kout = NoCall
    /\ kout' = [kernel |-> "Poly6", value |-> Poly6Value(kr, kh),
                gradient_mag |-> Poly6GradientMag(kr, kh)]
    /\ UNCHANGED <<kr, kh>>
    /\ UNCHANGED simvars

KNext == CallSpiky \/ CallPoly6

KernelSpec == KInit /\ [][KNext]_vars

\* ------------------------------------------------------------ properties
Last(q) == q[Len(q)]
Two == <<2, 1>>
HalfX == vec3(Half, Zero, Zero)

\* C1: at the end of each tick's particle loop, the density computed for every
\* particle i equals the sum over all j of mass[j] * Poly6.value(position[i] -
\* position[j], h) taken over the positions advanced in this tick (for j < i,
\* j = i and j > i alike).
C1_DensityUsesAdvancedPositions ==
    (simpc = "run" /\ i = num_particles /\ Len(density) = num_particles) =>
        \A k \in 1..num_particles : density[k] = DensitySum(s, k, num_particles)

\* C2: once the receiver is dropped, the next send fails (the thread panics),
\* and after the failed send nothing of the simulation changes any more: no
\* particle state is mutated, no snapshot is built or sent.
C2_ClosedConsumerStopsLoop ==
    [][ /\ (simpc = "run" /\ rx = "dropped" /\ sent' # sent) => simpc' = "panicked"
        /\ (simpc = "panicked") =>
              /\ simpc' = "panicked"
              /\ UNCHANGED <<s, i, tick, verts, density, sent, chan>> ]_vars

C2_Witness == simpc = "panicked" /\ num_particles >= 1 /\ Len(sent) >= 2

\* C3: the snapshots received are a prefix of the snapshots sent, in tick
\* order: the k-th received snapshot is the snapshot of tick k; while the
\* receiver lives, received followed by the queue is everything sent.
C3_FifoPrefix ==
    /\ Len(received) <= Len(sent)
    /\ \A k \in 1..Len(received) : received[k] = sent[k] /\ received[k].tick = k
    /\ rx = "open" => received \o chan = sent

C3_Witness == Len(received) >= 2 /\ num_particles >= 1

\* C4: every snapshot passed to send holds exactly N records, and record j of
\* the snapshot just sent carries the position of particle j as advanced in
\* that tick.
C4_SnapshotComplete ==
    /\ \A k \in 1..Len(sent) : Len(sent[k].verts) = num_particles
    /\ (sent # <<>> /\ i = 0) =>
          \A j \in 1..num_particles :
              Last(sent).verts[j].position = s.positions[j]

C4_Witness ==
    /\ Len(sent) >= 2 /\ i = 0 /\ num_particles >= 2
    /\ \A j \in 1..num_particles : s.positions[j] # s0.positions[j]

\* the two-particle scenario: masses [1, 1], positions [(0,0,0), (0.5,0,0)],
\* zero velocities and forces, h = 1, dt = 0.01, at the end of the first tick
TwoParticleScenario ==
    /\ num_particles = 2
    /\ s0.masses = <<One, One>>
    /\ s0.positions = <<ZeroVec, HalfX>>
    /\ s0.force = <<ZeroVec, ZeroVec>>
    /\ tick = 1 /\ i = 2

\* C5 as stated: after one tick of the two-particle scenario the positions are
\* unchanged and density[0] == density[1] == 2 * Poly6.value((0.5,0,0), 1).
C5_Original ==
    TwoParticleScenario =>
        /\ s.positions = s0.positions
        /\ density[1] = RMul(Two, Poly6Value(HalfX, One))
        /\ density[2] = RMul(Two, Poly6Value(HalfX, One))

\* C5 amended: after one tick of the two-particle scenario the positions are
\* unchanged and density[0] == density[1] == Poly6.value((0.5,0,0), 1): one
\* cross term each, the self term at r = 0 contributing 0.
C5_DensityIsOneCrossTerm ==
    TwoParticleScenario =>
        /\ s.positions = s0.positions
        /\ density[1] = Poly6Value(HalfX, One)
        /\ density[2] = Poly6Value(HalfX, One)
        /\ Poly6Value(ZeroVec, One) = Zero

C5_Witness == TwoParticleScenario /\ density[1] # Zero

\* C6: a particle step is semi-implicit Euler: the velocity becomes
\* velocity + (dt / mass) * force and the position moves by dt times the
\* updated velocity; the single particle at (1,0,0) with force (-0.1,0,0),
\* mass 1, dt = 0.01 has velocity (-0.001,0,0) and position (0.99999,0,0)
\* after one tick.
C6_SemiImplicitEuler ==
    [][ /\ (i' = i + 1) =>
              /\ s'.velocities[i'] =
                    VAdd(s.velocities[i'],
                         VScale(RDiv(delta_time, s.masses[i']), s.force[i']))
              /\ s'.positions[i'] =
                    VAdd(s.positions[i'], VScale(delta_time, s'.velocities[i']))
        /\ (s0 = Simulation(SingleParticleScenario) /\ tick = 1 /\ i' = 1) =>
              /\ s'.velocities[1] = vec3(Rat(-1, 1000), Zero, Zero)
              /\ s'.positions[1] = vec3(Rat(99999, 100000), Zero, Zero) ]_vars

C6_Witness ==
    /\ s0 = Simulation(SingleParticleScenario) /\ tick = 1 /\ i = 1
    /\ s.positions[1] = vec3(Rat(99999, 100000), Zero, Zero)

\* a configuration the claim calls an error: no particle, a mass <= 0 or h <= 0
ConfigError ==
    \/ num_particles = 0
    \/ \E k \in 1..num_particles : RLe(s0.masses[k], Zero)
    \/ RLe(h, Zero)

\* C7: a configuration with a non-positive mass, a non-positive smoothing
\* radius or zero particles is rejected at construction: no tick runs and no
\* snapshot is ever sent.
C7_ConfigErrorRejected ==
    ConfigError => (sent = <<>> /\ tick = 1 /\ i = 0)

\* the probed vector lies outside the support: |r| > h
OutsideSupport == RLt(RMul(kh, kh), magnitude2(kr))

\* C8: for both kernels, for every r and h > 0 with |r| > h, value(r, h) = 0
\* and gradient_mag(r, h) = 0.
C8_CompactSupport ==
    (kout.kernel # "none" /\ RLt(Zero, kh) /\ OutsideSupport) =>
        (kout.value = Zero /\ kout.gradient_mag = Zero)

C8_Witness == kout.kernel = "Poly6" /\ OutsideSupport /\ kr[1] # Zero

\* C9 as stated: a kernel evaluation on a zero-length vector with h > 0
\* returns 0, for the Spiky kernel as well as for the Poly6 kernel.
C9_Original ==
    (kout.kernel # "none" /\ kr = ZeroVec /\ RLt(Zero, kh)) => kout.value = Zero

\* C9 amended: a kernel evaluation on a zero-length vector with h > 0 is
\* defined for both kernels: Poly6 returns 0 and Spiky returns its maximum
\* 15 / (PI h^3), which is not 0.
C9_ZeroVectorDefined ==
    (kout.kernel # "none" /\ kr = ZeroVec /\ RLt(Zero, kh)) =>
        /\ kout.kernel = "Poly6" => kout.value = Zero
        /\ kout.kernel = "Spiky" =>
              (kout.value = RDiv(<<15, 1>>, Powi(kh, 3)) /\ kout.value # Zero)

C9_Witness == kout.kernel = "Spiky" /\ kr = ZeroVec /\ kout.value # Zero

\* C10: after any number of ticks every mass and every force equals its value
\* at construction, and the four arrays keep the length N.
C10_MassForceFrame ==
    /\ s.masses = s0.masses
    /\ s.force = s0.force
    /\ Len(s.masses) = num_particles
    /\ Len(s.positions) = num_particles
    /\ Len(s.velocities) = num_particles
    /\ Len(s.force) = num_particles

C10_Witness ==
    /\ tick >= 3 /\ num_particles >= 2
    /\ \A j \in 1..num_particles : s.velocities[j] # s0.velocities[j]

====
